---- MODULE Spec2Model ----
(***************************************************************************)
(* Model of the tools in specifications/Tool.  The core is the function    *)
(* fill() of interpolate_missing_values.py, which turns a                  *)
(* variable-resolution time series into a fixed-resolution one; around it  *)
(* are the batch drivers process_database and process_all, the validator   *)
(* of validate.py and the importer of atlite_time_series_reader.py.        *)
(*                                                                         *)
(* Time stamps are numpy datetime64[s] values: integers counting seconds.  *)
(* The ratio diffs / step is a float64 division; its rounding decides the  *)
(* branch at line 56, so the model computes the float64 result bit for bit *)
(* (see FloatDeviation).  Series values are float64 in the program; the    *)
(* model carries them as exact rationals in lowest terms.                  *)
(***************************************************************************)
EXTENDS Integers, Sequences, FiniteSets, TLC

VARIABLES
  time_series,            \* the series given to fill
  interpolation_method,   \* the policy given to fill
  new_time_series,        \* what fill returned
  pc,                     \* where the running function is
  args,                   \* the arguments of the running driver
  databases,              \* the contents of the databases, by URL
  connections,            \* the URLs with an open connection
  log,                    \* the calls made on database maps, in order
  stderr,                 \* the diagnostics printed to sys.stderr
  locals,                 \* the local variables of the running driver
  calls                   \* the frames of concurrent calls of fill

vars == <<time_series, interpolation_method, new_time_series, pc,
          args, databases, connections, log, stderr, locals, calls>>

\* the variables of the drivers
driver_vars == <<args, databases, connections, log, stderr, locals, calls>>

\* no driver runs: fill is called on its own
NoDriver ==
  /\ args = <<>>
  /\ databases = <<>>
  /\ connections = {}
  /\ log = <<>>
  /\ stderr = <<>>
  /\ locals = <<>>
  /\ calls = <<>>

(***************************************************************************)
(* Bounds of the model.                                                    *)
(***************************************************************************)
\* largest number of points of an input series
MaxLen == 3
\* time stamps stay below this number of seconds (TLC integers are 32 bit)
MaxStamp == 2000000000

(***************************************************************************)
(* Input families.  RegularGaps are gaps of 30, 37, 60, 90 and 120         *)
(* minutes, as in the tests; BoundaryGaps are gaps around multiples of     *)
(* 10^8 seconds, where a deviation of one second is a deviation of about   *)
(* 1e-8 steps.  The values of a family are small enough for the products   *)
(* of a value and a gap to stay within 32 bits.                            *)
(***************************************************************************)
StartStamp == 28800
RegularGaps == {1800, 2220, 3600, 5400, 7200}
RegularValues == {-30, -10}
BoundaryGaps == {99999999, 100000000, 199999999, 200000000, 200000001,
                 800000001}
BoundaryValues == {0, 1}
IndexNames == {"time"}

(***************************************************************************)
(* class Interpolation                                                     *)
(***************************************************************************)
Interpolation == {"previous", "next", "nearest", "linear"}

(***************************************************************************)
(* Rational numbers in lowest terms, for the series values.                *)
(***************************************************************************)
Abs(n) == IF n < 0 THEN -n ELSE n

RECURSIVE GCD(_, _)
GCD(a, b) == IF b = 0 THEN a ELSE GCD(b, a % b)

Rat(n, d) ==
  LET g == GCD(Abs(n), d)
  IN  [n |-> n \div g, d |-> d \div g]

(***************************************************************************)
(* TimeSeriesVariableResolution(indexes, values, ignore_year, repeat,      *)
(* index_name): the input of fill.                                         *)
(***************************************************************************)
TimeSeriesVariableResolution(indexes, values, ignore_year, repeat, index_name) ==
  [indexes |-> indexes, values |-> values, ignore_year |-> ignore_year,
   repeat |-> repeat, index_name |-> index_name]

(***************************************************************************)
(* str(step) read back by TimeSeriesFixedResolution: "<n> seconds" becomes *)
(* a relativedelta, which carries seconds over into minutes, hours, days,  *)
(* all with the sign of n.                                                 *)
(***************************************************************************)
Sign(n) == IF n < 0 THEN -1 ELSE 1

\* the resolution keeps only what is left of the seconds after the carry
Resolution_seconds_field(step) ==
  [days |-> 0, hours |-> 0, minutes |-> 0, seconds |-> Sign(step) * (Abs(step) % 60)]

Resolution(step) ==
  LET a == Abs(step)
      s == Sign(step)
  IN  [days |-> s * (a \div 86400), hours |-> s * ((a % 86400) \div 3600),
       minutes |-> s * ((a % 3600) \div 60), seconds |-> s * (a % 60)]

\* ignore_year and repeat passed in the wrong order
TimeSeriesFixedResolution_swapped(start, resolution, values, ignore_year, repeat, index_name) ==
  [kind |-> "TimeSeriesFixedResolution", start |-> start,
   resolution |-> Resolution(resolution), values |-> values,
   ignore_year |-> repeat, repeat |-> ignore_year, index_name |-> index_name]

TimeSeriesFixedResolution(start, resolution, values, ignore_year, repeat, index_name) ==
  [kind |-> "TimeSeriesFixedResolution", start |-> start,
   resolution |-> Resolution(resolution), values |-> values,
   ignore_year |-> ignore_year, repeat |-> repeat, index_name |-> index_name]

None == [kind |-> "None"]
\* an exception leaving fill
Raised == [kind |-> "ValueError"]

(***************************************************************************)
(* numpy helpers of lines 52-53.                                           *)
(***************************************************************************)
np_diff(indexes) == [i \in 1..(Len(indexes) - 1) |-> indexes[i + 1] - indexes[i]]

np_amin(a) == CHOOSE m \in {a[i] : i \in DOMAIN a} : \A i \in DOMAIN a : m <= a[i]

\* np.amin written where np.amax is meant
np_amax_as_amin(a) == np_amin(a)

np_amax(a) == CHOOSE m \in {a[i] : i \in DOMAIN a} : \A i \in DOMAIN a : m >= a[i]

(***************************************************************************)
(* Line 54, fractional_steps = diffs / step: a float64 division of two     *)
(* integers.  An element is kept as the pair of its operands; what the     *)
(* program reads from it (np.rint, the distance to np.rint) is computed    *)
(* from the pair as float64 arithmetic computes it.  The quotient of a     *)
(* division by a negative step is that of the negated operands, so the     *)
(* pair is kept with a positive second operand.  (A step of zero gives     *)
(* nan and inf; fill treats it apart.)                                     *)
(***************************************************************************)
fractional_steps(diffs, step) ==
  [i \in DOMAIN diffs |-> [num |-> Sign(step) * diffs[i], den |-> Abs(step)]]

(***************************************************************************)
(* Line 55, np.rint: the nearest integer, a half goes to the even one.     *)
(* The float64 quotient lies on the same side of every half as the exact   *)
(* quotient (they differ by less than 2^-40, the exact quotient is a half  *)
(* or at least 1/(2*den) away from it), so the exact quotient decides.     *)
(***************************************************************************)
np_rint(f) ==
  LET q   == f.num \div f.den
      rem == f.num % f.den
  IN  IF 2 * rem < f.den THEN q
      ELSE IF 2 * rem > f.den THEN q + 1
      ELSE IF q % 2 = 0 THEN q ELSE q + 1

RECURSIVE Log2(_)
Log2(n) == IF n < 2 THEN 0 ELSE 1 + Log2(n \div 2)

RECURSIVE Pow2(_)
Pow2(e) == IF e = 0 THEN 1 ELSE 2 * Pow2(e - 1)

\* bits of the fraction of a float64
MantissaBits == 52
\* the float64 literal 1e-8 in units of 2^-52, rounded down
Tolerance == 45035996
\* 1e-7 as a divisor: float64 distances above it are not told apart
Saturation == 10000000
\* what FloatDeviation gives for a distance above 1/Saturation
Saturated == 1000000000

(***************************************************************************)
(* The binary exponent of the float64 quotient of f, for a quotient within *)
(* 1/Saturation of the integer np_rint(f): that of the integer, or one     *)
(* less when the quotient is just below a power of two.                    *)
(***************************************************************************)
Exponent(f) ==
  LET r == np_rint(f)
      e == Log2(r)
  IN  IF f.num < r * f.den /\ r = Pow2(e) THEN e - 1 ELSE e

(***************************************************************************)
(* Long division: quotient and remainder of rem * 2^s by den, bit by bit.  *)
(***************************************************************************)
RECURSIVE ShiftDiv(_, _, _, _)
ShiftDiv(q, rem, den, s) ==
  IF s = 0 THEN [q |-> q, rem |-> rem]
  ELSE ShiftDiv(2 * q + (IF 2 * rem >= den THEN 1 ELSE 0), (2 * rem) % den, den, s - 1)

(***************************************************************************)
(* Line 56, one element of np.abs(steps - fractional_steps), in units of   *)
(* 2^-52.  The float64 quotient is the exact quotient rounded to 53        *)
(* significant bits (ties to even); np_rint(f) is a multiple of the unit   *)
(* in the last place, so the rounding acts on the distance alone, and the  *)
(* subtraction is exact.                                                   *)
(***************************************************************************)
FloatDeviation(f) ==
  LET r  == np_rint(f)
      dv == Abs(f.num - r * f.den)
      e  == Exponent(f)
      d  == ShiftDiv(0, dv, f.den, MantissaBits - e)
      n  == IF 2 * d.rem > f.den \/ (2 * d.rem = f.den /\ d.q % 2 = 1)
            THEN d.q + 1 ELSE d.q
  IN  IF dv = 0 THEN 0
      ELSE IF dv > f.den \div Saturation THEN Saturated
      ELSE n * Pow2(e)

(***************************************************************************)
(* scipy.interpolate.interp1d(x, y, kind) built on the two end points of a *)
(* gap and called on the stamp x_new (lines 62-66 and 70); x and x_new     *)
(* are whole seconds, exact in float64.                                    *)
(*   linear:   slope = (y1 - y0) / (x1 - x0);                              *)
(*             y_new = slope * (x_new - x0) + y0                           *)
(*   nearest:  x_bds = x0 / 2 + x1 / 2; searchsorted(x_bds, x_new,         *)
(*             side="left") picks y0 for x_new <= x_bds, y1 above it       *)
(*   previous: x shifted down by one float (nextafter), side="left",       *)
(*             the count of shifted x below x_new, clipped to 1..2,        *)
(*             selects y[count - 1]                                        *)
(*   next:     x shifted up by one float, side="right", the count of       *)
(*             shifted x not above x_new, clipped to 0..1, selects         *)
(*             y[count]                                                    *)
(***************************************************************************)
\* the straight line measured from the wrong end point
call_linear_swapped(x, y, x_new) ==
  LET g == GCD(x_new - x[1], x[2] - x[1])
      a == (x_new - x[1]) \div g
      b == (x[2] - x[1]) \div g
  IN  Rat(y[2] * b + (y[1] - y[2]) * a, b)

call_linear(x, y, x_new) ==
  LET g == GCD(x_new - x[1], x[2] - x[1])
      a == (x_new - x[1]) \div g
      b == (x[2] - x[1]) \div g
  IN  Rat(y[1] * b + (y[2] - y[1]) * a, b)

\* the farther end point instead of the nearer one
call_nearest_far(x, y, x_new) ==
  IF x_new - x[1] <= x[2] - x_new THEN Rat(y[2], 1) ELSE Rat(y[1], 1)

\* kind "nearest-up": the halfway point goes to the right neighbour
call_nearest_up(x, y, x_new) ==
  IF x_new - x[1] < x[2] - x_new THEN Rat(y[1], 1) ELSE Rat(y[2], 1)

call_nearest(x, y, x_new) ==
  IF x_new - x[1] <= x[2] - x_new THEN Rat(y[1], 1) ELSE Rat(y[2], 1)

\* the count used as the index without the shift by one
call_previous_off(x, y, x_new) ==
  LET count == Cardinality({j \in 1..2 : x[j] <= x_new})
      index == IF count < 1 THEN 1 ELSE count
  IN  Rat(y[index + 1], 1)

call_previous(x, y, x_new) ==
  LET count == Cardinality({j \in 1..2 : x[j] <= x_new})
      index == IF count < 1 THEN 1 ELSE count
  IN  Rat(y[index], 1)

\* the count shifted down by one as for "previous"
call_next_off(x, y, x_new) ==
  LET count == Cardinality({j \in 1..2 : x[j] < x_new})
      index == IF count > 1 THEN 1 ELSE count
  IN  Rat(y[index], 1)

call_next(x, y, x_new) ==
  LET count == Cardinality({j \in 1..2 : x[j] < x_new})
      index == IF count > 1 THEN 1 ELSE count
  IN  Rat(y[index + 1], 1)

interp1d(x, y, kind, x_new) ==
  CASE kind = "linear"   -> call_linear(x, y, x_new)
    [] kind = "nearest"  -> call_nearest(x, y, x_new)
    [] kind = "previous" -> call_previous(x, y, x_new)
    [] kind = "next"     -> call_next(x, y, x_new)

\* interp1d raises ValueError for a stamp outside [x0, x1] (bounds_error)
bounds_error(x, x_new) == x_new < x[1] \/ x_new > x[2]

(***************************************************************************)
(* Lines 67-69: the stamps indexes[i] + n * step for n in                  *)
(* np.arange(1.0, step_count).                                             *)
(***************************************************************************)
\* np.arange(1.0, step_count + 1): the right end point taken as interior
interpolation_stamps_inclusive(indexes, i, step, step_count) ==
  [n \in 1..step_count |-> indexes[i] + n * step]

interpolation_stamps(indexes, i, step, step_count) ==
  [n \in 1..(step_count - 1) |-> indexes[i] + n * step]

(***************************************************************************)
(* Lines 59-70, the loop body for gap i: the value at i, then, if the gap  *)
(* spans more than one step, the interpolated values.                      *)
(***************************************************************************)
\* the value at i appended after the interpolated values of its gap
gap_values_interior_first(ts, i, step, step_count, method) ==
  LET stamps == interpolation_stamps(ts.indexes, i, step, step_count)
  IN  (IF step_count > 1
       THEN [n \in DOMAIN stamps |->
               interp1d(SubSeq(ts.indexes, i, i + 1), SubSeq(ts.values, i, i + 1),
                        method, stamps[n])]
       ELSE <<>>) \o
      <<Rat(ts.values[i], 1)>>

gap_values(ts, i, step, step_count, method) ==
  LET stamps == interpolation_stamps(ts.indexes, i, step, step_count)
  IN  <<Rat(ts.values[i], 1)>> \o
      (IF step_count > 1
       THEN [n \in DOMAIN stamps |->
               interp1d(SubSeq(ts.indexes, i, i + 1), SubSeq(ts.values, i, i + 1),
                        method, stamps[n])]
       ELSE <<>>)

\* does the interpolation of gap i raise
gap_raises(ts, i, step, step_count) ==
  LET stamps == interpolation_stamps(ts.indexes, i, step, step_count)
  IN  step_count > 1 /\
      \E n \in DOMAIN stamps : bounds_error(SubSeq(ts.indexes, i, i + 1), stamps[n])

(***************************************************************************)
(* Lines 58-71: filled_values, from gap i on.                              *)
(***************************************************************************)
\* line 71 left out: the last value is never appended
RECURSIVE filled_values_no_last(_, _, _, _, _)
filled_values_no_last(ts, steps, step, method, i) ==
  IF i > Len(steps)
  THEN <<>>
  ELSE gap_values(ts, i, step, steps[i], method) \o
       filled_values_no_last(ts, steps, step, method, i + 1)

RECURSIVE filled_values(_, _, _, _, _)
filled_values(ts, steps, step, method, i) ==
  IF i > Len(steps)
  THEN <<Rat(ts.values[Len(ts.values)], 1)>>
  ELSE gap_values(ts, i, step, steps[i], method) \o
       filled_values(ts, steps, step, method, i + 1)

(***************************************************************************)
(* fill(time_series, interpolation_method), lines 42-80.                   *)
(*   Fewer than two stamps: np.diff gives an empty array and np.amin       *)
(* raises ValueError.                                                      *)
(*   A step of zero (a repeated stamp, none decreasing): diffs / step is   *)
(* nan for the zero gaps and inf for the others, steps - fractional_steps  *)
(* is nan throughout, and float(nan) > 1e-8 is false, so line 57 is not    *)
(* taken.  A step count of nan is not above 1.0; one of inf is, and        *)
(* np.arange(1.0, inf) raises ValueError.                                  *)
(*   A negative step (a decreasing stamp): the quotients are at most 1.0,  *)
(* so nothing is interpolated when the grid check passes.                  *)
(***************************************************************************)
fill(ts, method) ==
  IF Len(ts.indexes) < 2 THEN Raised
  ELSE
  LET diffs      == np_diff(ts.indexes)
      step       == np_amin(diffs)
      fractional == fractional_steps(diffs, step)
      steps      == [i \in DOMAIN fractional |-> np_rint(fractional[i])]
      errors     == [i \in DOMAIN fractional |-> FloatDeviation(fractional[i])]
      nan        == [i \in DOMAIN diffs |-> 0]
  IN  IF step = 0
      THEN IF \E i \in DOMAIN diffs : diffs[i] > 0 THEN Raised
           ELSE TimeSeriesFixedResolution(ts.indexes[1], step,
                  filled_values(ts, nan, step, method, 1),
                  ts.ignore_year, ts.repeat, ts.index_name)
      ELSE IF np_amax(errors) > Tolerance THEN None
      ELSE IF \E i \in DOMAIN steps : gap_raises(ts, i, step, steps[i]) THEN Raised
      ELSE TimeSeriesFixedResolution(ts.indexes[1], step,
             filled_values(ts, steps, step, method, 1),
             ts.ignore_year, ts.repeat, ts.index_name)

(***************************************************************************)
(* The input series: 2..MaxLen strictly increasing stamps from StartStamp  *)
(* on, with gaps and values of one family.  The series of the boundary     *)
(* family are taken with both flags unset.                                 *)
(***************************************************************************)
RECURSIVE Fits(_, _, _)
Fits(gaps, i, last) ==
  i > Len(gaps) \/ (gaps[i] <= MaxStamp - last /\ Fits(gaps, i + 1, last + gaps[i]))

RECURSIVE StampAt(_, _)
StampAt(gaps, i) == IF i = 1 THEN StartStamp ELSE StampAt(gaps, i - 1) + gaps[i - 1]

Indexes(gaps) == [i \in 1..(Len(gaps) + 1) |-> StampAt(gaps, i)]

SeriesOver(Gaps, Values) ==
  UNION { { TimeSeriesVariableResolution(Indexes(gaps), values, iy, rp, name) :
              gaps \in {g \in [1..(n - 1) -> Gaps] : Fits(g, 1, StartStamp)},
              values \in [1..n -> Values],
              iy \in BOOLEAN, rp \in BOOLEAN, name \in IndexNames }
          : n \in 2..MaxLen }

Init ==
  /\ \/ time_series \in SeriesOver(RegularGaps, RegularValues)
     \/ time_series \in { ts \in SeriesOver(BoundaryGaps, BoundaryValues) :
                             ~ts.ignore_year /\ ~ts.repeat }
  /\ interpolation_method \in Interpolation
  /\ new_time_series = None      \* nothing returned yet
  /\ pc = "call"
  /\ NoDriver

(***************************************************************************)
(* One call of fill on the series, line 103 and the tests.                 *)
(***************************************************************************)
Fill ==
  /\ pc = "call"
  /\ new_time_series' = fill(time_series, interpolation_method)
  /\ pc' = "return"
  /\ UNCHANGED <<time_series, interpolation_method>>
  /\ UNCHANGED driver_vars

Next == Fill

Spec == Init /\ [][Next]_vars

(***************************************************************************)
(* Vocabulary of the properties, stated on the input series with exact     *)
(* integer arithmetic, independently of how fill computes.                 *)
(***************************************************************************)
Returned == pc = "return"

IsSeries == new_time_series.kind = "TimeSeriesFixedResolution"

InputDiffs == [i \in 1..(Len(time_series.indexes) - 1) |->
                 time_series.indexes[i + 1] - time_series.indexes[i]]

\* the minimal gap
MinGap == CHOOSE m \in {InputDiffs[i] : i \in DOMAIN InputDiffs} :
            \A i \in DOMAIN InputDiffs : m <= InputDiffs[i]

\* the multiple of the minimal gap nearest to gap i: the rounded step count
Count(i) ==
  IF 2 * (InputDiffs[i] % MinGap) < MinGap
  THEN InputDiffs[i] \div MinGap
  ELSE InputDiffs[i] \div MinGap + 1

\* seconds between gap i and Count(i) minimal gaps
ExactDev(i) == Abs(InputDiffs[i] - Count(i) * MinGap)

\* gap i / minimal gap is farther than 1e-8 from its nearest integer
DeviatesExactly(i) == ExactDev(i) > MinGap \div 100000000

\* the sum of the rounded step counts of the gaps before point i
RECURSIVE Offset(_)
Offset(i) == IF i = 1 THEN 0 ELSE Offset(i - 1) + Count(i - 1)

\* the k-th value of the returned series after the value of input point i
Interior(i, k) == new_time_series.values[1 + Offset(i) + k]

Value(v) == [n |-> v, d |-> 1]

(***************************************************************************)
(* C1, as claimed: for N >= 2 strictly increasing time stamps and every    *)
(* policy, fill does not raise and returns None if and only if some gap    *)
(* divided by the minimal gap is farther than 1e-8 from its nearest        *)
(* integer; a deviation of exactly 1e-8 or less yields a series.           *)
(***************************************************************************)
C1_Original ==
  Returned =>
    /\ new_time_series # Raised
    /\ (new_time_series = None) <=> (\E i \in DOMAIN InputDiffs : DeviatesExactly(i))

(***************************************************************************)
(* C1, amended: fill does not raise and returns None if and only if, for   *)
(* some gap, the float64 quotient gap / minimal gap is farther than the    *)
(* float64 1e-8 from its nearest integer.  That is None whenever the exact *)
(* deviation of some gap is 2e-8 or more (a 37-minute gap against a        *)
(* 30-minute step), and a series whenever every exact deviation is 0.5e-8  *)
(* or less (for quotients below 2^24, whose rounding error is far below    *)
(* 1e-8); in between, at exactly 1e-8 too, the rounding of the quotient    *)
(* decides.                                                                *)
(***************************************************************************)
C1_GridCheck ==
  Returned =>
    /\ new_time_series # Raised
    /\ (new_time_series = None) <=>
         (\E i \in DOMAIN InputDiffs :
            FloatDeviation([num |-> InputDiffs[i], den |-> MinGap]) > Tolerance)
    /\ (\E i \in DOMAIN InputDiffs :
          ExactDev(i) >= (2 * MinGap + 99999999) \div 100000000)
         => new_time_series = None
    /\ (\A i \in DOMAIN InputDiffs : ExactDev(i) <= MinGap \div 200000000)
         => IsSeries

\* None for a series whose deviations are all 1e-8 or less, one not zero
C1_Witness ==
  /\ Returned
  /\ new_time_series = None
  /\ \A i \in DOMAIN InputDiffs : ~DeviatesExactly(i)
  /\ \E i \in DOMAIN InputDiffs : ExactDev(i) > 0

(***************************************************************************)
(* C2, length law: for every input that passes the grid check and every    *)
(* policy, the returned series has 1 + the sum of the rounded step counts  *)
(* of all gaps values.                                                     *)
(***************************************************************************)
C2_LengthLaw ==
  (Returned /\ IsSeries) =>
    Len(new_time_series.values) = 1 + Offset(Len(time_series.indexes))

\* a series of three points filled across a gap of three steps or more
C2_Witness ==
  /\ Returned /\ IsSeries
  /\ Len(time_series.indexes) = 3
  /\ \E i \in DOMAIN InputDiffs : Count(i) >= 3
  /\ Len(new_time_series.values) >= 5

(***************************************************************************)
(* C3, original-value preservation: the returned series starts at the      *)
(* first input time stamp and holds input value i unchanged at the index   *)
(* that is the sum of the rounded step counts of the gaps before i; its    *)
(* first and last values are the first and last input values.              *)
(***************************************************************************)
C3_OriginalValues ==
  (Returned /\ IsSeries) =>
    /\ new_time_series.start = time_series.indexes[1]
    /\ \A i \in DOMAIN time_series.values :
         Interior(i, 0) = Value(time_series.values[i])
    /\ new_time_series.values[1] = Value(time_series.values[1])
    /\ new_time_series.values[Len(new_time_series.values)]
         = Value(time_series.values[Len(time_series.values)])

\* three different values, the second and third moved by a filled gap
C3_Witness ==
  /\ Returned /\ IsSeries
  /\ Len(time_series.indexes) = 3
  /\ Count(1) > 2
  /\ time_series.values[1] # time_series.values[2]
  /\ time_series.values[2] # time_series.values[3]
  /\ new_time_series.values[1 + Count(1)] = Value(time_series.values[2])

\* the end points of gap i
V0(i) == time_series.values[i]
V1(i) == time_series.values[i + 1]

\* the gaps that fill has to fill, and the places k of their interior values
FilledGaps == {i \in DOMAIN InputDiffs : Count(i) > 1}
Places(i) == 1..(Count(i) - 1)

\* v0 + (v1 - v0) * (t - t0) / (t1 - t0) at t = t0 + k * step
ByTime(i, k) ==
  Rat(V0(i) * InputDiffs[i] + (V1(i) - V0(i)) * k * MinGap, InputDiffs[i])

\* v0 + (v1 - v0) * k / count
ByCount(i, k) == Rat(V0(i) * Count(i) + (V1(i) - V0(i)) * k, Count(i))

(***************************************************************************)
(* C4, as claimed: under the linear policy the k-th interior value of a    *)
(* gap of count > 1 steps is v0 + (v1 - v0) * (t - t0) / (t1 - t0) with    *)
(* t = t0 + k * step, that is, v0 + (v1 - v0) * k / count.                 *)
(***************************************************************************)
C4_Original ==
  (Returned /\ IsSeries /\ interpolation_method = "linear") =>
    \A i \in FilledGaps : \A k \in Places(i) :
      /\ Interior(i, k) = ByTime(i, k)
      /\ Interior(i, k) = ByCount(i, k)

(***************************************************************************)
(* C4, amended: under the linear policy the k-th interior value of a gap   *)
(* of count > 1 steps is v0 + (v1 - v0) * (t - t0) / (t1 - t0) with        *)
(* t = t0 + k * step; it is v0 + (v1 - v0) * k / count when the gap is     *)
(* exactly count steps long.                                               *)
(***************************************************************************)
C4_Linear ==
  (Returned /\ IsSeries /\ interpolation_method = "linear") =>
    \A i \in FilledGaps : \A k \in Places(i) :
      /\ Interior(i, k) = ByTime(i, k)
      /\ InputDiffs[i] = Count(i) * MinGap => Interior(i, k) = ByCount(i, k)

\* a linear fill between different values that gives a value not whole
C4_Witness ==
  /\ Returned /\ IsSeries /\ interpolation_method = "linear"
  /\ \E i \in FilledGaps :
       /\ V0(i) # V1(i)
       /\ InputDiffs[i] = Count(i) * MinGap
       /\ Interior(i, 1).d = Count(i)
       /\ Count(i) >= 3

(***************************************************************************)
(* C5, previous policy: every interior value of a gap of count > 1 steps   *)
(* is the value v0 of the left end point.                                  *)
(***************************************************************************)
C5_Previous ==
  (Returned /\ IsSeries /\ interpolation_method = "previous") =>
    \A i \in FilledGaps : \A k \in Places(i) : Interior(i, k) = Value(V0(i))

C5_Witness ==
  /\ Returned /\ IsSeries /\ interpolation_method = "previous"
  /\ \E i \in FilledGaps :
       V0(i) # V1(i) /\ Count(i) >= 3 /\ Interior(i, 2) = Value(V0(i))

(***************************************************************************)
(* C6, next policy: every interior value of a gap of count > 1 steps is    *)
(* the value v1 of the right end point.                                    *)
(***************************************************************************)
C6_Next ==
  (Returned /\ IsSeries /\ interpolation_method = "next") =>
    \A i \in FilledGaps : \A k \in Places(i) : Interior(i, k) = Value(V1(i))

C6_Witness ==
  /\ Returned /\ IsSeries /\ interpolation_method = "next"
  /\ \E i \in FilledGaps :
       V0(i) # V1(i) /\ Count(i) >= 3 /\ Interior(i, 1) = Value(V1(i))

(***************************************************************************)
(* C7, nearest policy: the k-th interior value of a gap of count > 1 steps *)
(* is v0 when k < count / 2 and v1 when k > count / 2.                     *)
(***************************************************************************)
C7_Nearest ==
  (Returned /\ IsSeries /\ interpolation_method = "nearest") =>
    \A i \in FilledGaps : \A k \in Places(i) :
      /\ 2 * k < Count(i) => Interior(i, k) = Value(V0(i))
      /\ 2 * k > Count(i) => Interior(i, k) = Value(V1(i))

\* a gap of three steps: the first interior value is v0, the second v1
C7_Witness ==
  /\ Returned /\ IsSeries /\ interpolation_method = "nearest"
  /\ \E i \in FilledGaps :
       /\ V0(i) # V1(i) /\ Count(i) = 3
       /\ Interior(i, 1) = Value(V0(i)) /\ Interior(i, 2) = Value(V1(i))

\* gap i has an interior point exactly halfway between its end points
HasMidpoint(i) == Count(i) % 2 = 0 /\ InputDiffs[i] = Count(i) * MinGap

(***************************************************************************)
(* C8, as claimed: under the nearest policy the interior point exactly     *)
(* halfway between the end points of a gap of an even number of steps      *)
(* takes the right end point value v1.                                     *)
(***************************************************************************)
C8_Original ==
  (Returned /\ IsSeries /\ interpolation_method = "nearest") =>
    \A i \in FilledGaps :
      HasMidpoint(i) => Interior(i, Count(i) \div 2) = Value(V1(i))

(***************************************************************************)
(* C8, amended: under the nearest policy the interior point exactly        *)
(* halfway between the end points of a gap of an even number of steps      *)
(* takes the left end point value v0.                                      *)
(***************************************************************************)
C8_NearestTie ==
  (Returned /\ IsSeries /\ interpolation_method = "nearest") =>
    \A i \in FilledGaps :
      HasMidpoint(i) => Interior(i, Count(i) \div 2) = Value(V0(i))

C8_Witness ==
  /\ Returned /\ IsSeries /\ interpolation_method = "nearest"
  /\ \E i \in FilledGaps :
       /\ HasMidpoint(i) /\ V0(i) # V1(i)
       /\ Interior(i, Count(i) \div 2) = Value(V0(i))

\* fill on the input series with both of its flags cleared
Unflagged ==
  fill([time_series EXCEPT !.ignore_year = FALSE, !.repeat = FALSE],
       interpolation_method)

(***************************************************************************)
(* C9, flag pass-through: for every policy the returned series has the     *)
(* ignore_year, repeat and index name of the input, and the flags have no  *)
(* influence on the outcome, the start, the step or the values: they are   *)
(* those of the same series with both flags cleared.                       *)
(***************************************************************************)
C9_Flags ==
  Returned =>
    /\ IsSeries =>
         /\ new_time_series.ignore_year = time_series.ignore_year
         /\ new_time_series.repeat = time_series.repeat
         /\ new_time_series.index_name = time_series.index_name
    /\ Unflagged.kind = new_time_series.kind
    /\ IsSeries =>
         /\ Unflagged.values = new_time_series.values
         /\ Unflagged.resolution = new_time_series.resolution
         /\ Unflagged.start = new_time_series.start

\* a filled series that keeps ignore_year set and repeat clear
C9_Witness ==
  /\ Returned /\ IsSeries
  /\ time_series.ignore_year /\ ~time_series.repeat
  /\ new_time_series.ignore_year /\ ~new_time_series.repeat
  /\ time_series.index_name = "time" /\ new_time_series.index_name = "time"
  /\ FilledGaps # {}

\* every gap of the input is the minimal gap
Regular == \A i \in DOMAIN InputDiffs : InputDiffs[i] = MinGap

(***************************************************************************)
(* C10, already-regular case: when every gap equals the minimal gap (as    *)
(* for every series of two points) fill returns, under every policy, a     *)
(* series with exactly the input values, in order, none added.             *)
(***************************************************************************)
C10_Regular ==
  (Returned /\ Regular) =>
    /\ IsSeries
    /\ Len(new_time_series.values) = Len(time_series.values)
    /\ \A i \in DOMAIN time_series.values :
         new_time_series.values[i] = Value(time_series.values[i])

\* three points, two equal gaps, values not all equal
C10_Witness ==
  /\ Returned /\ Regular /\ IsSeries
  /\ Len(time_series.indexes) = 3
  /\ time_series.values[1] # time_series.values[3]
  /\ Len(new_time_series.values) = 3

\* the length of a resolution, in seconds
InSeconds(resolution) ==
  resolution.days * 86400 + resolution.hours * 3600
    + resolution.minutes * 60 + resolution.seconds

(***************************************************************************)
(* C11, step detection: the resolution of a returned series is exactly the *)
(* least difference between consecutive stamps of the input, and it is     *)
(* strictly positive.  It is a function of the stamps alone: neither the   *)
(* caller nor the policy has a say.                                        *)
(***************************************************************************)
C11_StepDetection ==
  (Returned /\ IsSeries) =>
    /\ InSeconds(new_time_series.resolution) = MinGap
    /\ MinGap > 0

\* three points whose second gap, of 30 minutes, is the shorter one
C11_Witness ==
  /\ Returned /\ IsSeries
  /\ Len(time_series.indexes) = 3
  /\ InputDiffs[2] < InputDiffs[1]
  /\ InputDiffs[2] = 1800
  /\ new_time_series.resolution = [days |-> 0, hours |-> 0, minutes |-> 30, seconds |-> 0]

(***************************************************************************)
(* Malformed input: a single stamp, or 2..MaxLen stamps of which some is   *)
(* not later than the one before it.                                       *)
(***************************************************************************)
MalformedGaps == {-1800, 0, 1800, 3600}

MalformedSeries ==
  { TimeSeriesVariableResolution(<<StartStamp>>, <<v>>, iy, rp, name) :
      v \in RegularValues, iy \in BOOLEAN, rp \in BOOLEAN, name \in IndexNames }
  \cup { ts \in SeriesOver(MalformedGaps, RegularValues) :
           \E i \in 1..(Len(ts.indexes) - 1) : ts.indexes[i + 1] <= ts.indexes[i] }

InitMalformed ==
  /\ time_series \in MalformedSeries
  /\ interpolation_method \in Interpolation
  /\ new_time_series = None
  /\ pc = "call"
  /\ NoDriver

SpecMalformed == InitMalformed /\ [][Next]_vars

\* the stamps of the input are not strictly increasing, or are fewer than two
Malformed ==
  \/ Len(time_series.indexes) < 2
  \/ \E i \in DOMAIN InputDiffs : InputDiffs[i] <= 0

(***************************************************************************)
(* C15, malformed input: for a series whose stamps are not strictly        *)
(* increasing, or that has fewer than two points, fill never returns a     *)
(* fixed-resolution series: it raises or returns None.                     *)
(***************************************************************************)
C15_MalformedFails ==
  (Returned /\ Malformed) => ~IsSeries

(***************************************************************************)
(* Concurrent calls of fill.  Each call has a frame with its parameters    *)
(* and the local variables of lines 52-71; the calls take their steps      *)
(* (the statements before the loop, one turn of the loop, the statements   *)
(* after it) in any order.  args holds what each caller passed.            *)
(***************************************************************************)
Callers == {"a", "b"}

CallGaps == {1800, 3600, 5400}

\* series of alternating values whose first gap is 30 minutes
CallSeries ==
  { ts \in SeriesOver(CallGaps, RegularValues) :
      /\ ts.indexes[2] - ts.indexes[1] = 1800
      /\ ~ts.ignore_year /\ ts.repeat
      /\ \A i \in DOMAIN ts.values :
           ts.values[i] = IF i % 2 = 1 THEN -30 ELSE -10 }

\* lines 52-57: the step and the step counts, or the failure
step_counts(ts) ==
  IF Len(ts.indexes) < 2 THEN Raised
  ELSE
  LET diffs      == np_diff(ts.indexes)
      step       == np_amin(diffs)
      fractional == fractional_steps(diffs, step)
      steps      == [i \in DOMAIN fractional |-> np_rint(fractional[i])]
      errors     == [i \in DOMAIN fractional |-> FloatDeviation(fractional[i])]
      nan        == [i \in DOMAIN diffs |-> 0]
  IN  IF step = 0
      THEN IF \E i \in DOMAIN diffs : diffs[i] > 0 THEN Raised
           ELSE [kind |-> "steps", step |-> step, steps |-> nan]
      ELSE IF np_amax(errors) > Tolerance THEN None
      ELSE [kind |-> "steps", step |-> step, steps |-> steps]

\* filled_values is one list that every call appends to
append_shared(frames, c, new_values) ==
  [d \in DOMAIN frames |->
     IF frames[d].pc = "loop"
     THEN [frames[d] EXCEPT !.filled_values = @ \o new_values]
     ELSE frames[d]]

\* lines 59 and 70, filled_values.append on the list of call c
append(frames, c, new_values) ==
  [frames EXCEPT ![c].filled_values = @ \o new_values]

InitCalls ==
  /\ args \in [Callers -> [time_series : CallSeries, interpolation_method : Interpolation]]
  /\ calls = [c \in Callers |->
                [pc |-> "call", time_series |-> args[c].time_series,
                 interpolation_method |-> args[c].interpolation_method,
                 step |-> 0, steps |-> <<>>, i |-> 1, filled_values |-> <<>>,
                 new_time_series |-> None]]
  /\ time_series = None /\ interpolation_method = "linear" /\ new_time_series = None
  /\ pc = "calls"
  /\ databases = <<>> /\ connections = {} /\ log = <<>> /\ stderr = <<>> /\ locals = <<>>

\* lines 52-58 of call c
CallFill(c) ==
  /\ calls[c].pc = "call"
  /\ LET found == step_counts(calls[c].time_series)
     IN  calls' = [calls EXCEPT ![c] =
           IF found.kind = "steps"
           THEN [@ EXCEPT !.pc = "loop", !.step = found.step, !.steps = found.steps,
                          !.i = 1, !.filled_values = <<>>]
           ELSE [@ EXCEPT !.pc = "return", !.new_time_series = found]]
  /\ UNCHANGED <<time_series, interpolation_method, new_time_series, pc,
                 args, databases, connections, log, stderr, locals>>

\* lines 59-70 of call c: one turn of the loop
Iterate(c) ==
  /\ calls[c].pc = "loop"
  /\ calls[c].i <= Len(calls[c].steps)
  /\ LET f == calls[c]
     IN  calls' =
           IF gap_raises(f.time_series, f.i, f.step, f.steps[f.i])
           THEN [calls EXCEPT ![c].pc = "return", ![c].new_time_series = Raised]
           ELSE [append(calls, c, gap_values(f.time_series, f.i, f.step, f.steps[f.i],
                                             f.interpolation_method))
                   EXCEPT ![c].i = @ + 1]
  /\ UNCHANGED <<time_series, interpolation_method, new_time_series, pc,
                 args, databases, connections, log, stderr, locals>>

\* lines 71-80 of call c
Return(c) ==
  /\ calls[c].pc = "loop"
  /\ calls[c].i > Len(calls[c].steps)
  /\ LET ts   == calls[c].time_series
         last == append(calls, c, <<Rat(ts.values[Len(ts.values)], 1)>>)
     IN  calls' = [last EXCEPT
           ![c].pc = "return",
           ![c].new_time_series =
              TimeSeriesFixedResolution(ts.indexes[1], last[c].step, last[c].filled_values,
                                        ts.ignore_year, ts.repeat, ts.index_name)]
  /\ UNCHANGED <<time_series, interpolation_method, new_time_series, pc,
                 args, databases, connections, log, stderr, locals>>

NextCalls == \E c \in Callers : CallFill(c) \/ Iterate(c) \/ Return(c)

SpecCalls == InitCalls /\ [][NextCalls]_vars

(***************************************************************************)
(* C20, purity: in any interleaving of calls of fill on different series,  *)
(* a call never changes the series it was given, and what it returns is    *)
(* what fill returns for its series and its policy alone.                  *)
(***************************************************************************)
C20_Pure ==
  \A c \in Callers :
    /\ calls[c].time_series = args[c].time_series
    /\ calls[c].interpolation_method = args[c].interpolation_method
    /\ calls[c].pc = "return" =>
         calls[c].new_time_series =
           fill(args[c].time_series, args[c].interpolation_method)

\* both calls returned, with different interpolated series for different inputs
C20_Witness ==
  /\ \A c \in Callers :
       /\ calls[c].pc = "return"
       /\ calls[c].new_time_series.kind = "TimeSeriesFixedResolution"
       /\ Len(calls[c].new_time_series.values) > Len(args[c].time_series.values)
  /\ args["a"].time_series # args["b"].time_series
  /\ args["a"].interpolation_method # args["b"].interpolation_method
  /\ calls["a"].new_time_series.values # calls["b"].new_time_series.values

(***************************************************************************)
(* Stored parameter values.  A time series is stored with its data and an  *)
(* index; the data of a variable-resolution series are (stamp, value)      *)
(* pairs, a fixed-resolution series has a start and a resolution (a count  *)
(* and a unit) in its index.                                               *)
(***************************************************************************)
\* the length of one unit of a stored duration, in seconds
unit_seconds(unit) ==
  CASE unit = "s" -> 1 [] unit = "m" -> 60 [] unit = "h" -> 3600 [] unit = "D" -> 86400

\* relativedelta_to_duration: the coarsest positive field decides the unit
relativedelta_to_duration(delta) ==
  IF delta.seconds > 0
  THEN [count |-> delta.seconds + 60 * delta.minutes + 3600 * delta.hours
                    + 86400 * delta.days, unit |-> "s"]
  ELSE IF delta.minutes > 0
  THEN [count |-> delta.minutes + 60 * delta.hours + 1440 * delta.days, unit |-> "m"]
  ELSE IF delta.hours > 0
  THEN [count |-> delta.hours + 24 * delta.days, unit |-> "h"]
  ELSE IF delta.days > 0
  THEN [count |-> delta.days, unit |-> "D"]
  ELSE [count |-> 0, unit |-> "h"]

\* line 107, to_database: the stored form of a fixed-resolution series
to_database(series) ==
  [value |-> [data |-> series.values,
              index |-> [start |-> series.start,
                         resolution |-> relativedelta_to_duration(series.resolution),
                         ignore_year |-> series.ignore_year, repeat |-> series.repeat],
              index_name |-> series.index_name],
   type |-> "time_series"]

\* line 97, from_database
from_database(value, type) ==
  IF type # "time_series" THEN value
  ELSE IF "start" \in DOMAIN value.index
  THEN TimeSeriesFixedResolution(value.index.start,
         value.index.resolution.count * unit_seconds(value.index.resolution.unit),
         value.data, value.index.ignore_year, value.index.repeat, value.index_name)
  ELSE TimeSeriesVariableResolution(
         [i \in DOMAIN value.data |-> value.data[i][1]],
         [i \in DOMAIN value.data |-> value.data[i][2]],
         value.index.ignore_year, value.index.repeat, value.index_name)

\* isinstance(time_series, TimeSeriesVariableResolution)
is_variable_resolution(series) == "indexes" \in DOMAIN series

\* the stored form of a variable-resolution series
stored(indexes, values) ==
  [data |-> [i \in DOMAIN indexes |-> <<indexes[i], values[i]>>],
   index |-> [ignore_year |-> FALSE, repeat |-> FALSE],
   index_name |-> "time"]

(***************************************************************************)
(* The values a row of parameter_value_sq can hold: the series of          *)
(* test_fill_object_time_series (08:00, 09:00, 09:30), one with a gap of   *)
(* 37 minutes after one of 30, one of two points, a fixed-resolution       *)
(* series, a number, a series with a repeated stamp and one with a stamp   *)
(* out of order.                                                           *)
(***************************************************************************)
StoredValues ==
  { [type |-> "time_series", value |-> stored(<<28800, 32400, 34200>>, <<-30, -20, -10>>)],
    [type |-> "time_series", value |-> stored(<<28800, 30600, 32820>>, <<-30, -20, -10>>)],
    [type |-> "time_series", value |-> stored(<<28800, 32400>>, <<-30, -20>>)],
    [type |-> "time_series",
     value |-> to_database(TimeSeriesFixedResolution(28800, 1800,
                 <<Rat(-30, 1), Rat(-20, 1), Rat(-10, 1)>>, FALSE, FALSE, "time")).value],
    [type |-> "float", value |-> [data |-> 5]],
    [type |-> "time_series", value |-> stored(<<28800, 28800, 32400>>, <<-30, -20, -10>>)],
    [type |-> "time_series", value |-> stored(<<28800, 32400, 30600>>, <<-30, -20, -10>>)] }

MaxRows == 3

\* the row ids of a database are not the positions of its rows
row_id(i) == 10 + i

\* the databases of n rows
DatabasesOf(n) ==
  { [i \in 1..n |-> [id |-> row_id(i), type |-> content[i].type, value |-> content[i].value]] :
      content \in [1..n -> StoredValues] }

Databases == UNION { DatabasesOf(n) : n \in 0..MaxRows }

(***************************************************************************)
(* process_database, lines 83-109, and process_all, lines 112-127.         *)
(*   args      the URLs and the policy                                     *)
(*   databases the rows of parameter_value_sq of each URL                  *)
(*   locals    the position in urls, the position of value_row in the      *)
(*             query, updated_values, whether an exception is on its way   *)
(*             out, and who called process_database                        *)
(*   log       the calls made on database maps with their outcome          *)
(* time_series and new_time_series are the locals of lines 97 and 103.     *)
(***************************************************************************)
\* the URL being processed
url == args.urls[locals.url]

\* an exception in process_database leaves the function without any handling
propagate_unprotected(caller) == "raised"

\* where an exception in the try block of lines 120-125 goes: to the finally
\* block when process_all is running, straight out otherwise
propagate(caller) == IF caller = "process_all" THEN "close" ELSE "raised"

\* only series of fewer than two points are passed over
skipped_under_two(series) ==
  ~is_variable_resolution(series) \/ Len(series.indexes) < 2

\* lines 98-102
skipped(series) ==
  ~is_variable_resolution(series) \/ Len(series.indexes) < 3

\* line 105: the f-string has no replacement field
diagnostic(value_row) == [text |-> "Couldn't fill a time series.", fields |-> <<>>]

\* lines 94-108: one turn of the loop over the rows
ValueRow ==
  /\ pc = "query"
  /\ locals.value_row <= Len(databases[url])
  /\ LET value_row == databases[url][locals.value_row]
         decoded   == from_database(value_row.value, value_row.type)
         filled    == fill(decoded, args.interpolation_method)
         continue  == [locals EXCEPT !.value_row = @ + 1]
     IN  IF value_row.type # "time_series"
         THEN /\ locals' = continue
              /\ UNCHANGED <<time_series, new_time_series, stderr, pc>>
         ELSE IF skipped(decoded)
         THEN /\ time_series' = decoded
              /\ locals' = continue
              /\ UNCHANGED <<new_time_series, stderr, pc>>
         ELSE IF filled = Raised
         THEN /\ time_series' = decoded
              /\ locals' = [locals EXCEPT !.exception = TRUE]
              /\ pc' = propagate(locals.caller)
              /\ UNCHANGED <<new_time_series, stderr>>
         ELSE IF filled = None
         THEN /\ time_series' = decoded
              /\ new_time_series' = filled
              /\ stderr' = Append(stderr, diagnostic(value_row))
              /\ locals' = continue
              /\ UNCHANGED pc
         ELSE /\ time_series' = decoded
              /\ new_time_series' = filled
              /\ locals' = [continue EXCEPT !.updated_values =
                              Append(@, [id |-> value_row.id,
                                         value |-> to_database(filled).value,
                                         type |-> to_database(filled).type])]
              /\ UNCHANGED <<stderr, pc>>
  /\ UNCHANGED <<interpolation_method, args, databases, connections, log, calls>>

\* line 109
ReturnUpdatedValues ==
  /\ pc = "query"
  /\ locals.value_row > Len(databases[url])
  /\ pc' = IF locals.caller = "process_all" THEN "update" ELSE "return"
  /\ UNCHANGED <<time_series, interpolation_method, new_time_series,
                 args, databases, connections, log, stderr, locals, calls>>

\* process_database called on an open database map, as the tests do
InitDatabase ==
  /\ args \in [urls : {<<1>>}, interpolation_method : Interpolation]
  /\ databases \in [{1} -> Databases]
  /\ connections = {1}
  /\ log = <<>>
  /\ stderr = <<>>
  /\ locals = [caller |-> "test", url |-> 1, value_row |-> 1, updated_values |-> <<>>,
               exception |-> FALSE]
  /\ pc = "query"
  /\ time_series = None /\ new_time_series = None
  /\ interpolation_method = args.interpolation_method
  /\ calls = <<>>

NextDatabase == ValueRow \/ ReturnUpdatedValues

SpecDatabase == InitDatabase /\ [][NextDatabase]_vars

(***************************************************************************)
(* Vocabulary for process_database, stated on the rows of the database.    *)
(***************************************************************************)
Rows == databases[1]

Decoded(i) == from_database(Rows[i].value, Rows[i].type)

\* a time series row holding a variable-resolution series of 3 points or more
Eligible(i) ==
  /\ Rows[i].type = "time_series"
  /\ "start" \notin DOMAIN Rows[i].value.index
  /\ Len(Rows[i].value.data) >= 3

Filled(i) == fill(Decoded(i), args.interpolation_method)

\* the rows that are filled successfully
FilledRows == {i \in DOMAIN Rows : Eligible(i) /\ Filled(i).kind = "TimeSeriesFixedResolution"}

\* the rows on which fill raises
RaisingRows == {i \in DOMAIN Rows : Eligible(i) /\ Filled(i) = Raised}

\* the rows for which fill reports the non-uniform grid
IrregularRows == {i \in DOMAIN Rows : Eligible(i) /\ Filled(i) = None}

\* the place of row i among the filled rows
Place(i) == Cardinality({j \in FilledRows : j <= i})

\* updated_values holds one record per filled row, in the order of the query
OneRecordPerFilledRow ==
  /\ Len(locals.updated_values) = Cardinality(FilledRows)
  /\ \A i \in FilledRows :
       LET record == locals.updated_values[Place(i)]
       IN  /\ record.id = Rows[i].id
           /\ record.type = "time_series"
           /\ record.value = to_database(Filled(i)).value
           /\ InSeconds(Filled(i).resolution) > 0 =>
                from_database(record.value, record.type) = Filled(i)

C13_DiagnosticNamesSeries ==
  pc = "return" =>
    /\ Len(stderr) = Cardinality(IrregularRows)
    /\ \A i \in IrregularRows :
         \E k \in DOMAIN stderr :
           \E f \in DOMAIN stderr[k].fields : stderr[k].fields[f] = Rows[i].id

(***************************************************************************)
(* process_all, lines 112-127.  A call on a database map is logged with    *)
(* its URL and whether it returned ("ok") or raised.                       *)
(***************************************************************************)
MaxUrls == 2

\* the databases behind the URLs: empty, the series of the test, an
\* irregular series before it, and a series on which fill raises
UrlDatabases ==
  { rows \in DatabasesOf(0) \cup DatabasesOf(1) \cup DatabasesOf(2) :
      \/ rows = <<>>
      \/ Len(rows) = 1 /\ rows[1].value = stored(<<28800, 32400, 34200>>, <<-30, -20, -10>>)
      \/ Len(rows) = 1 /\ rows[1].value = stored(<<28800, 28800, 32400>>, <<-30, -20, -10>>)
      \/ /\ Len(rows) = 2
         /\ rows[1].value = stored(<<28800, 30600, 32820>>, <<-30, -20, -10>>)
         /\ rows[2].value = stored(<<28800, 32400, 34200>>, <<-30, -20, -10>>) }

InitAll ==
  /\ \E n \in 1..MaxUrls :
       /\ args \in [urls : {[i \in 1..n |-> i]}, interpolation_method : {"linear", "next"}]
       /\ databases \in [1..n -> UrlDatabases]
  /\ connections = {}
  /\ log = <<>>
  /\ stderr = <<>>
  /\ locals = [caller |-> "process_all", url |-> 1, value_row |-> 1, updated_values |-> <<>>,
               exception |-> FALSE]
  /\ pc = "open"
  /\ time_series = None /\ new_time_series = None
  /\ interpolation_method = args.interpolation_method
  /\ calls = <<>>

\* line 119: the database map is created (or the URL cannot be opened), and
\* line 122 calls process_database
DatabaseMapping ==
  /\ pc = "open"
  /\ locals.url <= Len(args.urls)
  /\ \E opened \in BOOLEAN :
       IF opened
       THEN /\ connections' = connections \cup {url}
            /\ log' = Append(log, <<"DatabaseMapping", url, "ok">>)
            /\ locals' = [locals EXCEPT !.value_row = 1, !.updated_values = <<>>]
            /\ pc' = "query"
       ELSE /\ log' = Append(log, <<"DatabaseMapping", url, "raised">>)
            /\ locals' = [locals EXCEPT !.exception = TRUE]
            /\ pc' = "raised"
            /\ UNCHANGED connections
  /\ UNCHANGED <<time_series, interpolation_method, new_time_series,
                 args, databases, stderr, calls>>

\* the rows after the update records are applied
updated(rows, updated_values) ==
  [i \in DOMAIN rows |->
     IF \E k \in DOMAIN updated_values : updated_values[k].id = rows[i].id
     THEN LET k == CHOOSE k \in DOMAIN updated_values : updated_values[k].id = rows[i].id
          IN  [id |-> rows[i].id, type |-> updated_values[k].type,
               value |-> updated_values[k].value]
     ELSE rows[i]]

\* lines 121-123, db_map.update_parameter_values
UpdateParameterValues ==
  /\ pc = "update"
  /\ \E done \in BOOLEAN :
       IF done
       THEN /\ databases' = [databases EXCEPT ![url] = updated(@, locals.updated_values)]
            /\ log' = Append(log, <<"update_parameter_values", url, "ok">>)
            /\ pc' = "commit"
            /\ UNCHANGED locals
       ELSE /\ log' = Append(log, <<"update_parameter_values", url, "raised">>)
            /\ locals' = [locals EXCEPT !.exception = TRUE]
            /\ pc' = propagate(locals.caller)
            /\ UNCHANGED databases
  /\ UNCHANGED <<time_series, interpolation_method, new_time_series,
                 args, connections, stderr, calls>>

\* line 124, db_map.commit_session
CommitSession ==
  /\ pc = "commit"
  /\ \E done \in BOOLEAN :
       /\ log' = Append(log, <<"commit_session", url, IF done THEN "ok" ELSE "raised">>)
       /\ locals' = [locals EXCEPT !.exception = ~done]
       /\ pc' = IF done THEN "close" ELSE propagate(locals.caller)
  /\ UNCHANGED <<time_series, interpolation_method, new_time_series,
                 args, databases, connections, stderr, calls>>

\* lines 125-126, the finally block; then the next URL or the exception
Close ==
  /\ pc = "close"
  /\ connections' = connections \ {url}
  /\ log' = Append(log, <<"close", url, "ok">>)
  /\ IF locals.exception
     THEN pc' = "raised" /\ UNCHANGED locals
     ELSE pc' = "open" /\ locals' = [locals EXCEPT !.url = @ + 1]
  /\ UNCHANGED <<time_series, interpolation_method, new_time_series,
                 args, databases, stderr, calls>>

\* the loop of line 118 is over
ReturnNone ==
  /\ pc = "open"
  /\ locals.url > Len(args.urls)
  /\ pc' = "done"
  /\ UNCHANGED <<time_series, interpolation_method, new_time_series,
                 args, databases, connections, log, stderr, locals, calls>>

NextAll ==
  \/ DatabaseMapping
  \/ ValueRow
  \/ ReturnUpdatedValues
  \/ UpdateParameterValues
  \/ CommitSession
  \/ Close
  \/ ReturnNone

SpecAll == InitAll /\ [][NextAll]_vars

(***************************************************************************)
(* Vocabulary for process_all, stated on the log.                          *)
(***************************************************************************)
\* the URLs opened and not closed after the first k calls
OpenAfter(k) ==
  { u \in DOMAIN databases :
      \E i \in 1..k :
        /\ log[i] = <<"DatabaseMapping", u, "ok">>
        /\ \A j \in (i + 1)..k : log[j] # <<"close", u, "ok">> }

\* the calls of a URL whose processing went through
Whole(u) ==
  <<<<"DatabaseMapping", u, "ok">>, <<"update_parameter_values", u, "ok">>,
    <<"commit_session", u, "ok">>, <<"close", u, "ok">>>>

RECURSIVE WholeUpTo(_)
WholeUpTo(n) == IF n = 0 THEN <<>> ELSE WholeUpTo(n - 1) \o Whole(n)

(***************************************************************************)
(* C18, process_all: every URL is handled as update_parameter_values, then *)
(* commit_session, then the close of the connection; a commit is attempted *)
(* only after the updates were computed and applied without an exception;  *)
(* at most one connection is open at any time; and every connection that   *)
(* was opened is closed when process_all returns or lets an exception out. *)
(***************************************************************************)
C18_OneConnection ==
  /\ Cardinality(connections) <= 1
  /\ \A k \in DOMAIN log : Cardinality(OpenAfter(k)) <= 1
  /\ connections = OpenAfter(Len(log))
  /\ \A k \in DOMAIN log :
       log[k][1] = "commit_session" =>
         k > 1 /\ log[k - 1] = <<"update_parameter_values", log[k][2], "ok">>
  /\ \A k \in DOMAIN log :
       log[k][1] = "update_parameter_values" =>
         k > 1 /\ log[k - 1] = <<"DatabaseMapping", log[k][2], "ok">>
  /\ \A k \in DOMAIN log :
       (log[k][1] = "DatabaseMapping" /\ k > 1) => log[k - 1][1] = "close"
  /\ pc \in {"done", "raised"} => connections = {}
  /\ pc = "done" => log = WholeUpTo(Len(args.urls))
  /\ pc = "raised" =>
       \/ log[Len(log)][1] = "DatabaseMapping" /\ log[Len(log)][3] = "raised"
       \/ /\ log[Len(log)][1] = "close"
          /\ log[Len(log) - 1] # <<"commit_session", log[Len(log)][2], "ok">>

\* the second URL was opened after the first was closed, and its processing
\* raised before the commit: its connection is closed all the same
C18_Witness ==
  /\ pc = "raised"
  /\ Len(args.urls) = 2
  /\ Len(log) = 6
  /\ SubSeq(log, 1, 4) = Whole(1)
  /\ log[5] = <<"DatabaseMapping", 2, "ok">>
  /\ log[6] = <<"close", 2, "ok">>
  /\ connections = {}

(***************************************************************************)
(* validate.py.  Names and patterns are sequences of characters; a JSON    *)
(* value of the settings is a record tagged with its kind (json), a list   *)
(* or a dict with its items; a rule that is a dict is a record with the    *)
(* keys it has; a stored value is given by its type and its number of      *)
(* indexes, which is what the schemas of the tests constrain.              *)
(***************************************************************************)
\* re.fullmatch in the place of re.match
re_fullmatch(pattern, name) == pattern = name

\* lines 157-164, Pattern.match of a literal pattern: the name starts with it
re_match(pattern, name) ==
  Len(pattern) <= Len(name) /\ SubSeq(name, 1, Len(pattern)) = pattern

\* rule.get(key, "")
rule_get(rule, key) == IF key \in DOMAIN rule THEN rule[key] ELSE <<>>

\* lines 149-166, ObjectParameterValuePattern.matches
object_matches(rule, db_row) ==
  /\ re_match(rule_get(rule, "class"), db_row.object_class_name)
  /\ re_match(rule_get(rule, "parameter"), db_row.parameter_name)
  /\ re_match(rule_get(rule, "object"), db_row.object_name)
  /\ re_match(rule_get(rule, "alternative"), db_row.alternative_name)

\* lines 186-197, RelationshipParameterValuePattern.matches; object_name_list
\* is kept split at the commas
relationship_matches(rule, db_row) ==
  /\ re_match(rule_get(rule, "class"), db_row.relationship_class_name)
  /\ re_match(rule_get(rule, "parameter"), db_row.parameter_name)
  /\ Len(db_row.object_name_list) = Len(rule.objects)
  /\ \A i \in DOMAIN rule.objects : re_match(rule.objects[i], db_row.object_name_list[i])
  /\ re_match(rule_get(rule, "alternative"), db_row.alternative_name)

\* lines 59-73, _count_indexes, and validator.errors["value"] for the schema
validator_errors(schema, value) ==
  (IF "type" \in DOMAIN schema /\ value.type # schema.type
   THEN <<"must be of " \o schema.type \o " type">> ELSE <<>>)
  \o
  (IF "number_of_indexes" \in DOMAIN schema /\ value.indexes # schema.number_of_indexes
   THEN <<"must have index count of given number">> ELSE <<>>)

\* lines 91-129, build_message_for_object_row and ..._for_relationship_row
build_message(entity_type, db_row, errors) ==
  [address |-> IF entity_type = "object"
               THEN <<db_row.object_class_name, db_row.parameter_name,
                      <<db_row.object_name>>, db_row.alternative_name>>
               ELSE <<db_row.relationship_class_name, db_row.parameter_name,
                      db_row.object_name_list, db_row.alternative_name>>,
   errors |-> errors]

\* lines 225-232 and 245-252: the messages of one rule, from row i on
RECURSIVE rule_messages(_, _, _, _)
rule_messages(entity_type, rule, db_rows, i) ==
  IF i > Len(db_rows) THEN <<>>
  ELSE LET db_row  == db_rows[i]
           matches == IF entity_type = "object" THEN object_matches(rule, db_row)
                      ELSE relationship_matches(rule, db_row)
           errors  == validator_errors(rule.rule, db_row.value)
       IN  (IF matches /\ errors # <<>>
            THEN <<build_message(entity_type, db_row, errors)>> ELSE <<>>)
           \o rule_messages(entity_type, rule, db_rows, i + 1)

\* the exception a rule raises before any row is read, or "none"
rule_raises(entity_type, rule) ==
  IF "json" \in DOMAIN rule THEN "TypeError"             \* lines 215-216, 235-236
  ELSE IF entity_type = "relationship" /\ "objects" \notin DOMAIN rule
  THEN "KeyError"                                        \* line 240
  ELSE IF "rule" \notin DOMAIN rule THEN "KeyError"       \* lines 223, 243
  ELSE "none"

\* what a for loop gets from a JSON value: the items of a list, the keys
\* (strings) of a dict
enumerate(rules) ==
  IF rules.json = "list" THEN rules.items
  ELSE [i \in DOMAIN rules.items |-> [json |-> "string"]]

\* lines 214-233 and 234-253: the rules of one list, from rule i on
RECURSIVE validate_rules(_, _, _, _, _)
validate_rules(entity_type, rules, db_rows, i, errors) ==
  IF i > Len(rules) THEN [kind |-> "list", errors |-> errors]
  ELSE IF rule_raises(entity_type, rules[i]) # "none"
  THEN [kind |-> rule_raises(entity_type, rules[i])]
  ELSE validate_rules(entity_type, rules, db_rows, i + 1,
                      errors \o rule_messages(entity_type, rules[i], db_rows, 1))

\* lines 200-260; a number cannot be iterated over
validate(db_map, object_parameter_rules, relationship_parameter_rules) ==
  IF object_parameter_rules.json = "number" THEN [kind |-> "TypeError"]
  ELSE
  LET object_errors ==
        validate_rules("object", enumerate(object_parameter_rules),
                       db_map.object_parameter_value_sq, 1, <<>>)
  IN  IF object_errors.kind # "list" THEN object_errors
      ELSE IF relationship_parameter_rules.json = "number" THEN [kind |-> "TypeError"]
      ELSE validate_rules("relationship", enumerate(relationship_parameter_rules),
                          db_map.relationship_parameter_value_sq, 1, object_errors.errors)

(***************************************************************************)
(* The databases and rules validate is called with, after the tests of     *)
(* test_validate.py: object values of the objects "o" and "o2", either a   *)
(* float or a time series; relationship values over one or two objects.    *)
(***************************************************************************)
MaxRules == 2

MaxValueRows == 2

Float == [type |-> "float", indexes |-> 0]

TimeSeries == [type |-> "time series", indexes |-> 1]

ObjectNames == {<<"o">>, <<"o", "2">>}

ObjectValueRows ==
  { [object_class_name |-> <<"c">>, parameter_name |-> <<"p">>, object_name |-> name,
     alternative_name |-> <<"B">>, value |-> value] :
      name \in ObjectNames, value \in {Float, TimeSeries} }

relationship_row(names, value) ==
  [relationship_class_name |-> <<"r">>, parameter_name |-> <<"p">>,
   object_name_list |-> names, alternative_name |-> <<"B">>, value |-> value]

RelationshipValueRows ==
  <<relationship_row(<<<<"o">>>>, TimeSeries),
    relationship_row(<<<<"o">>, <<"o", "2">>>>, Float),
    relationship_row(<<<<"o">>, <<"o", "2">>>>, TimeSeries)>>

ValueDatabases ==
  { [object_parameter_value_sq |-> rows, relationship_parameter_value_sq |-> relationships] :
      rows \in UNION { [1..n -> ObjectValueRows] : n \in 0..MaxValueRows },
      relationships \in {<<>>, RelationshipValueRows} }

\* a rule for every object value, one for the object "o2", one for the
\* objects whose name starts with "o", a string, and a dict without "rule"
ObjectRules ==
  { [rule |-> [type |-> "float"]],
    [object |-> <<"o", "2">>, rule |-> [number_of_indexes |-> 0]],
    [class |-> <<"c">>, object |-> <<"o">>, rule |-> [type |-> "time series"]],
    [json |-> "string"],
    [object |-> <<"o">>] }

\* a rule over two objects, one over one object, one without "objects"
relationship_rule_two == [objects |-> <<<<"o">>, <<"o">>>>, rule |-> [type |-> "float"]]

relationship_rule_one ==
  [class |-> <<"r">>, objects |-> <<<<"o">>>>, rule |-> [number_of_indexes |-> 0]]

relationship_rule_no_objects == [rule |-> [type |-> "float"]]

RelationshipRuleLists ==
  { <<>>, <<relationship_rule_two>>, <<relationship_rule_one>>,
    <<relationship_rule_no_objects>>, <<relationship_rule_one, relationship_rule_two>> }

json_list(items) == [json |-> "list", items |-> items]

InitValidate ==
  /\ args \in [object_parameter_rules :
                  { json_list(rules) :
                      rules \in UNION { [1..n -> ObjectRules] : n \in 0..MaxRules } },
                relationship_parameter_rules :
                  { json_list(rules) : rules \in RelationshipRuleLists }]
  /\ databases \in [{1} -> ValueDatabases]
  /\ connections = {1}
  /\ log = <<>>
  /\ stderr = <<>>
  /\ locals = [errors |-> <<>>, exception |-> "none"]
  /\ pc = "call"
  /\ time_series = None /\ interpolation_method = "linear" /\ new_time_series = None
  /\ calls = <<>>

\* one call of validate on an open database map, lines 200-260
Validate ==
  /\ pc = "call"
  /\ LET result == validate(databases[1], args.object_parameter_rules,
                            args.relationship_parameter_rules)
     IN  IF result.kind = "list"
         THEN locals' = [locals EXCEPT !.errors = result.errors] /\ pc' = "return"
         ELSE locals' = [locals EXCEPT !.exception = result.kind] /\ pc' = "raised"
  /\ UNCHANGED <<time_series, interpolation_method, new_time_series,
                 args, databases, connections, log, stderr, calls>>

NextValidate == Validate

SpecValidate == InitValidate /\ [][NextValidate]_vars

(***************************************************************************)
(* Vocabulary for validate, stated on the rules and the rows.              *)
(***************************************************************************)
ObjectRuleList == args.object_parameter_rules.items

RelationshipRuleList == args.relationship_parameter_rules.items

ObjectRowList == databases[1].object_parameter_value_sq

RelationshipRowList == databases[1].relationship_parameter_value_sq

\* the name starts with the pattern of the rule for the key, if it has one
PatternAllows(rule, key, name) ==
  key \notin DOMAIN rule \/
    (Len(rule[key]) <= Len(name) /\ \A i \in DOMAIN rule[key] : rule[key][i] = name[i])

\* the value violates the schema of the rule
Violates(rule, value) ==
  \/ "type" \in DOMAIN rule.rule /\ rule.rule.type # value.type
  \/ "number_of_indexes" \in DOMAIN rule.rule /\ rule.rule.number_of_indexes # value.indexes

\* the (rule, row) pairs, rule by rule and row by row
Pairs(rules, rows) ==
  [k \in 1..(Len(rules) * Len(rows)) |->
     [rule |-> rules[((k - 1) \div Len(rows)) + 1], row |-> rows[((k - 1) % Len(rows)) + 1]]]

ObjectPairFails(pair) ==
  /\ PatternAllows(pair.rule, "class", pair.row.object_class_name)
  /\ PatternAllows(pair.rule, "parameter", pair.row.parameter_name)
  /\ PatternAllows(pair.rule, "object", pair.row.object_name)
  /\ PatternAllows(pair.rule, "alternative", pair.row.alternative_name)
  /\ Violates(pair.rule, pair.row.value)

RelationshipPairFails(pair) ==
  /\ PatternAllows(pair.rule, "class", pair.row.relationship_class_name)
  /\ PatternAllows(pair.rule, "parameter", pair.row.parameter_name)
  /\ "objects" \in DOMAIN pair.rule =>
       /\ Len(pair.rule.objects) = Len(pair.row.object_name_list)
       /\ \A i \in DOMAIN pair.rule.objects :
            PatternAllows(pair.rule.objects, i, pair.row.object_name_list[i])
  /\ PatternAllows(pair.rule, "alternative", pair.row.alternative_name)
  /\ Violates(pair.rule, pair.row.value)

\* the pairs with a message, those of the object rules first
FailingPairs ==
  SelectSeq(Pairs(ObjectRuleList, ObjectRowList), ObjectPairFails)
    \o SelectSeq(Pairs(RelationshipRuleList, RelationshipRowList), RelationshipPairFails)

\* errors holds one message per failing pair, in that order
OneMessagePerFailingPair ==
  /\ Len(locals.errors) = Len(FailingPairs)
  /\ \A k \in DOMAIN FailingPairs :
       LET row == FailingPairs[k].row
       IN  /\ locals.errors[k].address[2] = row.parameter_name
           /\ locals.errors[k].address[4] = row.alternative_name
           /\ IF "object_name" \in DOMAIN row
              THEN /\ locals.errors[k].address[1] = row.object_class_name
                   /\ locals.errors[k].address[3] = <<row.object_name>>
              ELSE /\ locals.errors[k].address[1] = row.relationship_class_name
                   /\ locals.errors[k].address[3] = row.object_name_list
           /\ locals.errors[k].errors # <<>>

\* every rule is a dict with a schema under "rule"
RulesHaveSchemas ==
  \A rule \in {ObjectRuleList[i] : i \in DOMAIN ObjectRuleList}
               \cup {RelationshipRuleList[i] : i \in DOMAIN RelationshipRuleList} :
    "json" \notin DOMAIN rule /\ "rule" \in DOMAIN rule

\* every relationship rule has its list of object patterns
RulesHaveObjects ==
  \A i \in DOMAIN RelationshipRuleList : "objects" \in DOMAIN RelationshipRuleList[i]

(***************************************************************************)
(* C14, as claimed: validate returns exactly one message per (rule, row)   *)
(* pair whose row matches every name pattern of the rule, an absent        *)
(* pattern key matching every name, and whose value violates the schema    *)
(* of the rule; the messages of the object rules come first, in rule       *)
(* order, then those of the relationship rules; the list is empty when     *)
(* there is no such pair.                                                  *)
(***************************************************************************)
C14_Original ==
  (pc \in {"return", "raised"} /\ RulesHaveSchemas) =>
    (pc = "return" /\ OneMessagePerFailingPair)

(***************************************************************************)
(* C14, messages: validate returns a list exactly when every rule is a     *)
(* dict with a schema under "rule" and every relationship rule has an      *)
(* "objects" list; otherwise it raises.  The list holds exactly one        *)
(* message per (rule, row) pair in which every name of the row starts with *)
(* a match of the pattern the rule has for it (an absent class, parameter, *)
(* object or alternative key allows every name; the row of a relationship  *)
(* rule has as many objects as the rule has object patterns) and the value *)
(* violates the schema; object rules first, in rule order and, within a    *)
(* rule, row order, then the relationship rules.                           *)
(***************************************************************************)
C14_Messages ==
  pc \in {"return", "raised"} =>
    /\ pc = "return" <=> (RulesHaveSchemas /\ RulesHaveObjects)
    /\ pc = "return" => OneMessagePerFailingPair

\* two object rules and a relationship rule with messages, and an object
\* rule whose pattern "o" allows the object "o2"
C14_Witness ==
  /\ pc = "return"
  /\ Len(ObjectRuleList) = 2 /\ Len(RelationshipRuleList) = 2
  /\ ObjectRuleList[1] = [object |-> <<"o", "2">>, rule |-> [number_of_indexes |-> 0]]
  /\ "class" \in DOMAIN ObjectRuleList[2]
  /\ Len(ObjectRowList) = 2
  /\ ObjectRowList[1].object_name = <<"o">> /\ ObjectRowList[2].object_name = <<"o", "2">>
  /\ ObjectRowList[1].value = Float /\ ObjectRowList[2].value = TimeSeries
  /\ Len(locals.errors) = 4
  /\ locals.errors[1].address[3] = <<<<"o", "2">>>>
  /\ locals.errors[2].address[3] = <<<<"o">>>>
  /\ locals.errors[3].address[3] = <<<<"o">>>>
  /\ locals.errors[4].address[3] = <<<<"o">>, <<"o", "2">>>>

(***************************************************************************)
(* validate_urls, lines 263-306.  The settings are a dict that may have    *)
(* the keys "object_parameter_value" and "relationship_parameter_value";   *)
(* what is under a key is a list of rules or something else (a dict, a     *)
(* number).                                                                *)
(***************************************************************************)
Absent == [json |-> "absent"]

ObjectSettings ==
  { Absent, json_list(<<>>), json_list(<<[rule |-> [type |-> "float"]]>>),
    [json |-> "dict", items |-> <<>>] }

RelationshipSettings ==
  { Absent, json_list(<<relationship_rule_one>>),
    [json |-> "dict", items |-> <<>>], [json |-> "dict", items |-> <<"class">>],
    [json |-> "number", value |-> 3] }

\* the dict with the keys that are not absent
Settings ==
  { [key \in {k \in {"object_parameter_value", "relationship_parameter_value"} :
               (IF k = "object_parameter_value" THEN o ELSE r) # Absent} |->
       IF key = "object_parameter_value" THEN o ELSE r] :
      o \in ObjectSettings, r \in RelationshipSettings }

\* settings.get(key, [])
settings_get(settings, key) ==
  IF key \in DOMAIN settings THEN settings[key] ELSE json_list(<<>>)

\* lines 274-283, report_rule_counts: len() of a number that is not zero
\* raises TypeError
report_rule_counts_raises(rule_list) ==
  rule_list.json = "number" /\ rule_list.value # 0

\* a database without errors under the rules above, and one with errors
CleanDatabase ==
  [object_parameter_value_sq |->
     <<[object_class_name |-> <<"c">>, parameter_name |-> <<"p">>, object_name |-> <<"o">>,
        alternative_name |-> <<"B">>, value |-> Float]>>,
   relationship_parameter_value_sq |-> <<>>]

DirtyDatabase ==
  [object_parameter_value_sq |->
     <<[object_class_name |-> <<"c">>, parameter_name |-> <<"p">>, object_name |-> <<"o">>,
        alternative_name |-> <<"B">>, value |-> TimeSeries]>>,
   relationship_parameter_value_sq |-> RelationshipValueRows]

InitUrls ==
  /\ \E n \in 1..MaxUrls :
       /\ args \in [urls : {[i \in 1..n |-> i]}, settings : Settings]
       /\ databases \in [1..n -> {CleanDatabase, DirtyDatabase}]
  /\ connections = {}
  /\ log = <<>>
  /\ stderr = <<>>
  /\ locals = [object_parameter_rules |-> json_list(<<>>),
               relationship_parameter_rules |-> json_list(<<>>),
               success |-> TRUE, url |-> 1, errors |-> <<>>, exception |-> "none"]
  /\ pc = "settings"
  /\ time_series = None /\ interpolation_method = "linear" /\ new_time_series = None
  /\ calls = <<>>

\* lines 285-293
ReadSettings ==
  /\ pc = "settings"
  /\ LET object_parameter_rules == settings_get(args.settings, "object_parameter_value")
         relationship_parameter_rules ==
           settings_get(args.settings, "relationship_parameter_value")
     IN  IF object_parameter_rules.json # "list"                          \* line 286
         THEN locals' = [locals EXCEPT !.exception = "TypeError"] /\ pc' = "raised"
         ELSE IF object_parameter_rules.json # "list"                     \* line 290
         THEN locals' = [locals EXCEPT !.exception = "TypeError"] /\ pc' = "raised"
         ELSE IF report_rule_counts_raises(relationship_parameter_rules)  \* line 292
         THEN locals' = [locals EXCEPT !.exception = "TypeError"] /\ pc' = "raised"
         ELSE /\ locals' = [locals EXCEPT
                   !.object_parameter_rules = object_parameter_rules,
                   !.relationship_parameter_rules = relationship_parameter_rules,
                   !.success = TRUE, !.url = 1]
              /\ pc' = "open"
  /\ UNCHANGED <<time_series, interpolation_method, new_time_series,
                 args, databases, connections, log, stderr, calls>>

\* line 296: the database map is created, or the URL cannot be opened
OpenDatabaseMap ==
  /\ pc = "open"
  /\ locals.url <= Len(args.urls)
  /\ \E opened \in BOOLEAN :
       IF opened
       THEN /\ connections' = connections \cup {url}
            /\ log' = Append(log, <<"DatabaseMapping", url, "ok">>)
            /\ pc' = "validate"
            /\ UNCHANGED locals
       ELSE /\ log' = Append(log, <<"DatabaseMapping", url, "raised">>)
            /\ locals' = [locals EXCEPT !.exception = "SpineDBAPIError"]
            /\ pc' = "raised"
            /\ UNCHANGED connections
  /\ UNCHANGED <<time_series, interpolation_method, new_time_series,
                 args, databases, stderr, calls>>

\* success is what the last database gave
success_of_last(success, errors) == errors = <<>>

\* lines 301-302
success_after(success, errors) == IF errors # <<>> THEN FALSE ELSE success

\* lines 298-303: validate and, when there are errors, print_errors
ValidateDatabase ==
  /\ pc = "validate"
  /\ LET result == validate(databases[url], locals.object_parameter_rules,
                            locals.relationship_parameter_rules)
     IN  IF result.kind = "list"
         THEN /\ locals' = [locals EXCEPT !.errors = result.errors,
                                          !.success = success_after(@, result.errors)]
              /\ stderr' = stderr \o result.errors
              /\ log' = Append(log, <<"validate", url, "ok">>)
         ELSE /\ locals' = [locals EXCEPT !.exception = result.kind]
              /\ log' = Append(log, <<"validate", url, "raised">>)
              /\ UNCHANGED stderr
  /\ pc' = "finally"
  /\ UNCHANGED <<time_series, interpolation_method, new_time_series,
                 args, databases, connections, calls>>

\* lines 304-305, the finally block; then the next URL or the exception
CloseConnection ==
  /\ pc = "finally"
  /\ connections' = connections \ {url}
  /\ log' = Append(log, <<"close", url, "ok">>)
  /\ IF locals.exception # "none"
     THEN pc' = "raised" /\ UNCHANGED locals
     ELSE pc' = "open" /\ locals' = [locals EXCEPT !.url = @ + 1]
  /\ UNCHANGED <<time_series, interpolation_method, new_time_series,
                 args, databases, stderr, calls>>

\* line 306
ReturnSuccess ==
  /\ pc = "open"
  /\ locals.url > Len(args.urls)
  /\ pc' = "done"
  /\ UNCHANGED <<time_series, interpolation_method, new_time_series,
                 args, databases, connections, log, stderr, locals, calls>>

NextUrls ==
  \/ ReadSettings
  \/ OpenDatabaseMap
  \/ ValidateDatabase
  \/ CloseConnection
  \/ ReturnSuccess

SpecUrls == InitUrls /\ [][NextUrls]_vars

(***************************************************************************)
(* C16, settings: whenever "relationship_parameter_value" is present in    *)
(* the settings and is not a list, validate_urls raises TypeError before   *)
(* it opens any database.                                                  *)
(***************************************************************************)
C16_RelationshipTypeError ==
  ("relationship_parameter_value" \in DOMAIN args.settings
     /\ args.settings.relationship_parameter_value.json # "list") =>
    /\ log = <<>>
    /\ pc \in {"settings", "raised"}
    /\ pc = "raised" => locals.exception = "TypeError"

\* the messages validate gives for the database of URL u
MessagesOf(u) ==
  validate(databases[u], settings_get(args.settings, "object_parameter_value"),
           settings_get(args.settings, "relationship_parameter_value"))

\* the calls of a URL that was validated
Validated(u) ==
  <<<<"DatabaseMapping", u, "ok">>, <<"validate", u, "ok">>, <<"close", u, "ok">>>>

RECURSIVE ValidatedUpTo(_)
ValidatedUpTo(n) == IF n = 0 THEN <<>> ELSE ValidatedUpTo(n - 1) \o Validated(n)

(***************************************************************************)
(* C17, validate_urls: validation runs on every URL, in order, also after  *)
(* a database with validation errors; the result is True exactly when no   *)
(* database gave an error message; a connection is closed before the next  *)
(* is opened, and also when validation raises.                             *)
(***************************************************************************)
C17_EveryUrl ==
  /\ Cardinality(connections) <= 1
  /\ connections = OpenAfter(Len(log))
  /\ \A k \in DOMAIN log :
       (log[k][1] = "DatabaseMapping" /\ k > 1) => log[k - 1] = <<"close", log[k][2] - 1, "ok">>
  /\ \A k \in DOMAIN log :
       log[k][1] = "validate" =>
         /\ log[k - 1] = <<"DatabaseMapping", log[k][2], "ok">>
         /\ log[k][3] = "ok" <=> MessagesOf(log[k][2]).kind = "list"
  /\ pc = "done" =>
       /\ log = ValidatedUpTo(Len(args.urls))
       /\ locals.success <=> \A u \in DOMAIN args.urls : MessagesOf(u).errors = <<>>
  /\ pc = "raised" =>
       /\ connections = {}
       /\ \/ log = <<>>
          \/ log[Len(log)] = <<"DatabaseMapping", Len(log) \div 3 + 1, "raised">>
          \/ /\ log[Len(log)][1] = "close"
             /\ log[Len(log) - 1] = <<"validate", log[Len(log)][2], "raised">>

\* the first database has errors, the second is validated and has none
C17_Witness ==
  /\ pc = "done"
  /\ Len(args.urls) = 2
  /\ MessagesOf(1).errors # <<>>
  /\ MessagesOf(2).errors = <<>>
  /\ log = Validated(1) \o Validated(2)
  /\ ~locals.success
  /\ stderr = MessagesOf(1).errors

(***************************************************************************)
(* atlite_time_series_reader.py, process_files, lines 165-189.             *)
(*   args      the netCDF files by position (their dimensions, the         *)
(*             entities and the series of their data array, or that they   *)
(*             cannot be opened), the class, parameter and alternative     *)
(*   databases the target database: its object classes, parameters,        *)
(*             alternatives, objects and parameter values                  *)
(*   locals    the position of file_name and whether an exception is on    *)
(*             its way out                                                 *)
(***************************************************************************)
MaxFiles == 2

\* the data of test_importing_data_array_as_object_parameter: 09:00 and 10:00
dataset(dims, entity) ==
  [opens |-> TRUE, dims |-> dims, entities |-> <<entity>>,
   time |-> <<32400, 36000>>, values |-> <<-2, 5>>]

\* two importable files, one of three dimensions, one whose first dimension
\* is not the time, and one that is not there
Files ==
  { dataset(<<"time", "object">>, "object1"),
    dataset(<<"time", "object">>, "object2"),
    dataset(<<"time", "x", "y">>, "object3"),
    dataset(<<"x", "time">>, "object4"),
    [opens |-> FALSE] }

EmptyDatabase ==
  [object_classes |-> {}, parameters |-> {}, alternatives |-> {}, objects |-> {},
   values |-> {}]

\* only the number of dimensions is checked
valid_dims_only(ds) == Len(ds.dims) = 2

\* lines 30-50
valid(ds) == Len(ds.dims) = 2 /\ ds.dims[1] = "time"

\* what valid prints to sys.stderr, lines 39-49
valid_prints(ds) ==
  IF Len(ds.dims) # 2 THEN <<"Dataset's dimensions should be 2.">>
  ELSE IF ds.dims[1] # "time" THEN <<"Expected dataset's first dimension to be 'time'.">>
  ELSE <<>>

\* lines 53-88 and 143-162: the objects and the series of the data array
import_dataset(db, ds, class_name, parameter, alternative) ==
  [db EXCEPT
     !.objects = @ \cup { <<class_name, ds.entities[e]>> : e \in DOMAIN ds.entities },
     !.values = { v \in @ : \A e \in DOMAIN ds.entities : v.object # ds.entities[e] }
                  \cup { [class |-> class_name, object |-> ds.entities[e],
                           parameter |-> parameter, alternative |-> alternative,
                           value |-> TimeSeriesVariableResolution(ds.time, ds.values,
                                       FALSE, FALSE, "time")] :
                          e \in DOMAIN ds.entities }]

InitFiles ==
  /\ \E n \in 1..MaxFiles :
       args \in [file_names : [1..n -> Files], url : {1}, class_name : {"object_class"},
                 parameter : {"parameter1"}, alternative : {"alternative1"}]
  /\ databases = <<EmptyDatabase>>
  /\ connections = {}
  /\ log = <<>>
  /\ stderr = <<>>
  /\ locals = [file_name |-> 1, exception |-> FALSE]
  /\ pc = "open"
  /\ time_series = None /\ interpolation_method = "linear" /\ new_time_series = None
  /\ calls = <<>>

\* line 176
OpenTarget ==
  /\ pc = "open"
  /\ \E opened \in BOOLEAN :
       IF opened
       THEN /\ connections' = connections \cup {args.url}
            /\ log' = Append(log, <<"DatabaseMapping", args.url, "ok">>)
            /\ pc' = "class"
            /\ UNCHANGED locals
       ELSE /\ log' = Append(log, <<"DatabaseMapping", args.url, "raised">>)
            /\ locals' = [locals EXCEPT !.exception = TRUE]
            /\ pc' = "raised"
            /\ UNCHANGED connections
  /\ UNCHANGED <<time_series, interpolation_method, new_time_series,
                 args, databases, stderr, calls>>

\* line 178
ImportObjectClass ==
  /\ pc = "class"
  /\ databases' = [databases EXCEPT ![args.url].object_classes = @ \cup {args.class_name}]
  /\ log' = Append(log, <<"import_object_class", args.url, "ok">>)
  /\ pc' = "parameter"
  /\ UNCHANGED <<time_series, interpolation_method, new_time_series,
                 args, connections, stderr, locals, calls>>

\* line 179
ImportParameter ==
  /\ pc = "parameter"
  /\ databases' = [databases EXCEPT
                     ![args.url].parameters = @ \cup {<<args.class_name, args.parameter>>}]
  /\ log' = Append(log, <<"import_parameter", args.url, "ok">>)
  /\ pc' = "alternative"
  /\ UNCHANGED <<time_series, interpolation_method, new_time_series,
                 args, connections, stderr, locals, calls>>

\* line 180
ImportAlternative ==
  /\ pc = "alternative"
  /\ databases' = [databases EXCEPT ![args.url].alternatives = @ \cup {args.alternative}]
  /\ log' = Append(log, <<"import_alternative", args.url, "ok">>)
  /\ pc' = "files"
  /\ UNCHANGED <<time_series, interpolation_method, new_time_series,
                 args, connections, stderr, locals, calls>>

\* lines 181-186: one turn of the loop over the files
ImportFile ==
  /\ pc = "files"
  /\ locals.file_name <= Len(args.file_names)
  /\ LET ds == args.file_names[locals.file_name]
     IN  IF ~ds.opens
         THEN /\ log' = Append(log, <<"open_dataset", locals.file_name, "raised">>)
              /\ locals' = [locals EXCEPT !.exception = TRUE]
              /\ pc' = "finally"
              /\ UNCHANGED <<databases, stderr>>
         ELSE IF ~valid(ds)
         THEN /\ stderr' = stderr \o valid_prints(ds) \o <<"Failed to open file.">>
              /\ log' = Append(log, <<"open_dataset", locals.file_name, "ok">>)
              /\ locals' = [locals EXCEPT !.file_name = @ + 1]
              /\ UNCHANGED <<databases, pc>>
         ELSE /\ databases' = [databases EXCEPT ![args.url] =
                   import_dataset(@, ds, args.class_name, args.parameter, args.alternative)]
              /\ log' = log \o <<<<"open_dataset", locals.file_name, "ok">>,
                                  <<"import_dataset", locals.file_name, "ok">>>>
              /\ locals' = [locals EXCEPT !.file_name = @ + 1]
              /\ UNCHANGED <<stderr, pc>>
  /\ UNCHANGED <<time_series, interpolation_method, new_time_series,
                 args, connections, calls>>

\* line 187
CommitImported ==
  /\ pc = "files"
  /\ locals.file_name > Len(args.file_names)
  /\ \E done \in BOOLEAN :
       /\ log' = Append(log, <<"commit_session", args.url, IF done THEN "ok" ELSE "raised">>)
       /\ locals' = [locals EXCEPT !.exception = ~done]
  /\ pc' = "finally"
  /\ UNCHANGED <<time_series, interpolation_method, new_time_series,
                 args, databases, connections, stderr, calls>>

\* lines 188-189
CloseTarget ==
  /\ pc = "finally"
  /\ connections' = connections \ {args.url}
  /\ log' = Append(log, <<"close", args.url, "ok">>)
  /\ pc' = IF locals.exception THEN "raised" ELSE "done"
  /\ UNCHANGED <<time_series, interpolation_method, new_time_series,
                 args, databases, stderr, locals, calls>>

NextFiles ==
  \/ OpenTarget
  \/ ImportObjectClass
  \/ ImportParameter
  \/ ImportAlternative
  \/ ImportFile
  \/ CommitImported
  \/ CloseTarget

SpecFiles == InitFiles /\ [][NextFiles]_vars

(***************************************************************************)
(* Vocabulary for process_files, stated on the files and the log.          *)
(***************************************************************************)
\* the files read so far that have two dimensions, the first being the time
ImportableRead ==
  { f \in 1..(locals.file_name - 1) :
      /\ Len(args.file_names[f].dims) = 2
      /\ args.file_names[f].dims[1] = "time" }

\* the commits attempted
Commits == {k \in DOMAIN log : log[k][1] = "commit_session"}

(***************************************************************************)
(* C19, process_files: the object class, the parameter and the alternative *)
(* are imported before anything of a file; a file that fails valid() (not  *)
(* exactly two dimensions, or a first dimension other than "time") adds    *)
(* nothing to the database and does not keep the later files from being    *)
(* read; one commit is made, after the last file; and the connection is    *)
(* closed on every path, exceptions included.                              *)
(***************************************************************************)
C19_ImportOrder ==
  /\ \A k \in DOMAIN log :
       log[k][1] \in {"open_dataset", "import_dataset", "commit_session"} =>
         /\ k > 4
         /\ log[2][1] = "import_object_class"
         /\ log[3][1] = "import_parameter"
         /\ log[4][1] = "import_alternative"
         /\ databases[1].object_classes = {args.class_name}
         /\ databases[1].parameters = {<<args.class_name, args.parameter>>}
         /\ databases[1].alternatives = {args.alternative}
  /\ databases[1].objects =
       { <<args.class_name, args.file_names[f].entities[1]>> : f \in ImportableRead }
  /\ { v.object : v \in databases[1].values } =
       { args.file_names[f].entities[1] : f \in ImportableRead }
  /\ { log[k][2] : k \in {j \in DOMAIN log : log[j][1] = "import_dataset"} } = ImportableRead
  /\ Cardinality(Commits) <= 1
  /\ \A k \in Commits :
       /\ locals.file_name = Len(args.file_names) + 1
       /\ \A j \in DOMAIN log : log[j][1] \in {"open_dataset", "import_dataset"} => j < k
  /\ pc = "done" =>
       /\ Cardinality(Commits) = 1
       /\ log[Len(log) - 1] = <<"commit_session", args.url, "ok">>
       /\ \A f \in DOMAIN args.file_names :
            \E k \in DOMAIN log : log[k] = <<"open_dataset", f, "ok">>
  /\ pc = "raised" =>
       \/ log[Len(log)] = <<"DatabaseMapping", args.url, "raised">>
       \/ /\ log[Len(log)][1] = "close"
          /\ log[Len(log) - 1][3] = "raised"
          /\ log[Len(log) - 1][1] \in {"open_dataset", "commit_session"}
  /\ pc \in {"done", "raised"} => connections = {}
  /\ connections = OpenAfter(Len(log))

\* a file of three dimensions is passed over, the file after it is imported,
\* and the commit follows
C19_Witness ==
  /\ pc = "done"
  /\ Len(args.file_names) = 2
  /\ Len(args.file_names[1].dims) = 3
  /\ args.file_names[2].dims = <<"time", "object">>
  /\ databases[1].objects = {<<"object_class", args.file_names[2].entities[1]>>}
  /\ Cardinality(databases[1].values) = 1
  /\ Len(stderr) = 2
  /\ Cardinality(Commits) = 1
  /\ connections = {}

====
